---- MODULE Spec2Model ----
(***************************************************************************)
(* The account reading store of meter-data-structures.py:                  *)
(* MeterDataManager (accounts, meters, owners) and ElectricityAccount      *)
(* (readings kept sorted with bisect.insort, readings_by_date, a           *)
(* defaultdict(list) keyed by calendar date), with the validators of       *)
(* meter-reading-api.py.                                                   *)
(*                                                                         *)
(* Encoding.  A datetime is an integer number of ticks; its date() is the  *)
(* tick count divided by two.  A kWh value is an integer number of *)
(* tenths of a kWh (99999.9 is 999999).  A meter id is the tuple of its    *)
(* characters.  f"ACC-{n:06d}" and f"READ-{n:06d}" are injective in n and  *)
(* are represented by n.  Every MeterReading object carries its identity   *)
(* oid (the order of construction), as a Python object does.               *)
(***************************************************************************)
EXTENDS Integers, Sequences, FiniteSets, TLC

VARIABLES
    accounts,   \* MeterDataManager.accounts: account_id -> ElectricityAccount
    meters,     \* MeterDataManager.meters:   meter_id -> account_id
    owners,     \* MeterDataManager.owners:   owner_id -> set of account_id
    created,    \* number of MeterReading objects constructed so far
    nreads,     \* number of read operations performed so far
    last,       \* the last call made as a whole: name, arguments, outcome
    storage_accounts,   \* data_models.Storage.accounts: meter_id -> Account
    archive,            \* the files under archive/daily: path -> content
    pc,             \* thread -> the statement the thread stands at
    frame,          \* thread -> the call it is in: arguments and locals
    lock,           \* MeterDataManager._lock: the thread holding it
    account_lock,   \* account_id -> the thread holding ElectricityAccount._lock
    simulators,     \* MeterSimulatorManager.simulators, in insertion order
    sims            \* the MeterSimulator objects created, in creation order

vars == <<accounts, meters, owners, created, nreads, last,
          storage_accounts, archive, pc, frame, lock, account_lock,
          simulators, sims>>

\* The state of the MeterSimulatorManager and of its simulators.
sim_vars == <<simulators, sims>>

\* The threads and the locks.
thread_vars == <<pc, frame, lock, account_lock>>

\* The state of data_models.storage and of its archive directory.
storage_vars == <<storage_accounts, archive>>

\* What a call on the MeterDataManager leaves alone.
outside_manager == <<storage_vars, thread_vars, sim_vars>>

----------------------------------------------------------------------------
\* Bounds of the model.

MaxAccounts == 2
MaxReadings == 3
MaxReads == 1
MaxTime == 4

\* datetime.date() of a timestamp: two ticks to the day.
date_of(ts) == ts \div 2

Timestamps == 0..MaxTime
Dates == 0..date_of(MaxTime)

\* Values submitted, in tenths of a kWh: 0.7 and 150000.0.
MaxReadingTenths == 999999
Values == {7, 1500000}

\* "123-456-789" and "12-34-56".
Meter123 == <<"1","2","3","-","4","5","6","-","7","8","9">>
Meter12 == <<"1","2","-","3","4","-","5","6">>
MeterIds == {Meter123, Meter12}

OwnerIds == {"o1"}

\* The threads calling the store.
Threads == {"t1", "t2"}
NoThread == "none"               \* a lock not held

----------------------------------------------------------------------------
\* Values of the program.

NoneTs == -1                     \* last_reading_date = None
NoAccount == 0                   \* dict.get(...) returning None
RECEIVED == "received"
UnknownMeter == "MeterReadingException: Unknown meter ID"

\* lambda x: x.timestamp
key(x) == x.timestamp

----------------------------------------------------------------------------
\* meter-reading-api.py: the validators.

Digits == {"0","1","2","3","4","5","6","7","8","9"}

\* re.match(r'^\d{3}-\d{3}-\d{3}$', meter_id): $ also matches before a
\* trailing newline.
validate_meter_id(meter_id) ==
    /\ \/ Len(meter_id) = 11
       \/ Len(meter_id) = 12 /\ meter_id[12] = "\n"
    /\ \A i \in 1..11 :
          IF i \in {4, 8} THEN meter_id[i] = "-" ELSE meter_id[i] \in Digits

\* 0 <= reading <= 99999.9
validate_reading(reading) == 0 <= reading /\ reading <= MaxReadingTenths

----------------------------------------------------------------------------
\* bisect.

\* bisect.bisect_right(a, x, lo, hi, key=key), indices from 0.
RECURSIVE bisect_right(_, _, _, _)
bisect_right(a, x, lo, hi) ==
    IF lo < hi
    THEN LET mid == (lo + hi) \div 2
         IN  IF x < key(a[mid + 1])
             THEN bisect_right(a, x, lo, mid)
             ELSE bisect_right(a, x, mid + 1, hi)
    ELSE lo

\* list.insert(i, x), i from 0.
list_insert(a, i, x) == SubSeq(a, 1, i) \o <<x>> \o SubSeq(a, i + 1, Len(a))

\* bisect_left in place of bisect_right: a tie goes before its equals.
RECURSIVE bisect_left(_, _, _, _)
bisect_left(a, x, lo, hi) ==
    IF lo < hi
    THEN LET mid == (lo + hi) \div 2
         IN  IF key(a[mid + 1]) < x
             THEN bisect_left(a, x, mid + 1, hi)
             ELSE bisect_left(a, x, lo, mid)
    ELSE lo

insort_left(a, x) == list_insert(a, bisect_left(a, key(x), 0, Len(a)), x)

\* bisect.insort(a, x, key=key)
insort(a, x) == list_insert(a, bisect_right(a, key(x), 0, Len(a)), x)

----------------------------------------------------------------------------
\* ElectricityAccount.

\* defaultdict(list).__getitem__: the value read, and the dict afterwards
\* (a missing key is inserted with an empty list).
dd_get(d, k) == IF k \in DOMAIN d THEN d[k] ELSE <<>>
dd_touch(d, k) == IF k \in DOMAIN d THEN d ELSE d @@ (k :> <<>>)

\* ElectricityAccount.__init__
new_account(account_id, meter_id, owner_id) ==
    [account_id |-> account_id,
     meter_id |-> meter_id,
     owner |-> owner_id,
     readings |-> <<>>,
     readings_by_date |-> <<>>,
     last_reading_date |-> NoneTs]

\* The date rounded up to the day after for an afternoon reading.
reading_date_rounded(reading) == date_of(reading.timestamp + 1)

\* The date bucket a reading is filed under: reading.timestamp.date().
reading_date(reading) == date_of(reading.timestamp)

\* The reading appended to its bucket instead of inserted in order.
bucket_append(by_date, reading) ==
    LET d == reading_date(reading)
    IN  [dd_touch(by_date, d) EXCEPT ![d] = Append(@, reading)]

\* The second insort of add_reading, into readings_by_date[reading_date].
bucket_insort(by_date, reading) ==
    LET d == reading_date(reading)
    IN  [dd_touch(by_date, d) EXCEPT ![d] = insort(@, reading)]

\* add_reading marking the reading it stores as validated.
account_add_reading_validated(account, reading) ==
    LET stored == [reading EXCEPT !.status = "validated"]
    IN  [account EXCEPT
            !.readings = insort(@, stored),
            !.readings_by_date = bucket_insort(@, stored),
            !.last_reading_date = reading.timestamp]

\* ElectricityAccount.add_reading, the body of "with self._lock".
account_add_reading(account, reading) ==
    [account EXCEPT
        !.readings = insort(@, reading),
        !.readings_by_date = bucket_insort(@, reading),
        !.last_reading_date = reading.timestamp]

\* ElectricityAccount.get_latest_reading; NoReading is None.
NoReading == [oid |-> 0]
get_latest_reading(account) ==
    IF Len(account.readings) > 0
    THEN account.readings[Len(account.readings)]
    ELSE NoReading

\* The while loop of get_readings_by_date_range, from current_date on.
RECURSIVE range_loop(_, _, _, _)
range_loop(by_date, current_date, end_date, result) ==
    IF current_date <= end_date
    THEN range_loop(by_date, current_date + 1, end_date,
                    result \o dd_get(by_date, current_date))
    ELSE result

\* The same loop stopping one day early (current_date < end_date).
RECURSIVE range_loop_exclusive(_, _, _, _)
range_loop_exclusive(by_date, current_date, end_date, result) ==
    IF current_date < end_date
    THEN range_loop_exclusive(by_date, current_date + 1, end_date,
                              result \o dd_get(by_date, current_date))
    ELSE result

range_exclusive(account, start_date, end_date) ==
    range_loop_exclusive(account.readings_by_date, start_date, end_date, <<>>)

\* ElectricityAccount.get_readings_by_date_range: the list returned.
get_readings_by_date_range(account, start_date, end_date) ==
    range_loop(account.readings_by_date, start_date, end_date, <<>>)

\* readings_by_date after the dates start_date..end_date were looked up in
\* the defaultdict.
dd_touch_range(by_date, start_date, end_date) ==
    [d \in DOMAIN by_date \cup (start_date..end_date) |-> dd_get(by_date, d)]

\* sum(reading.value for reading in daily_readings)
RECURSIVE py_sum(_)
py_sum(readings) ==
    IF readings = <<>> THEN 0
    ELSE py_sum(SubSeq(readings, 1, Len(readings) - 1))
         + readings[Len(readings)].value

\* readings[-1].value - readings[0].value, as maintenance.py computes it.
last_minus_first(account, target_date) ==
    LET daily_readings == dd_get(account.readings_by_date, target_date)
    IN  IF daily_readings = <<>> THEN 0
        ELSE daily_readings[Len(daily_readings)].value - daily_readings[1].value

\* ElectricityAccount.get_daily_consumption: the float returned.
get_daily_consumption(account, target_date) ==
    LET daily_readings == dd_get(account.readings_by_date, target_date)
    IN  IF daily_readings = <<>> THEN 0 ELSE py_sum(daily_readings)

----------------------------------------------------------------------------
\* MeterDataManager.

\* d[k] = v
dict_set(d, k, v) == [x \in DOMAIN d \cup {k} |-> IF x = k THEN v ELSE d[x]]

\* d.get(k), None as NoAccount
dict_get(d, k) == IF k \in DOMAIN d THEN d[k] ELSE NoAccount

\* MeterDataManager.get_account_by_meter: the account_id of the account
\* returned, NoAccount for None.
get_account_by_meter(meter_id) ==
    LET account_id == dict_get(meters, meter_id)
    IN  IF account_id \in DOMAIN accounts THEN account_id ELSE NoAccount

\* MeterDataManager.create_account, the body of "with self._lock".
create_account(meter_id, owner_id) ==
    LET account_id == Cardinality(DOMAIN accounts) + 1
        account == new_account(account_id, meter_id, owner_id)
    IN  /\ accounts' = dict_set(accounts, account_id, account)
        /\ meters' = dict_set(meters, meter_id, account_id)
        /\ owners' = dict_set(owners, owner_id,
                              (IF owner_id \in DOMAIN owners
                               THEN owners[owner_id] ELSE {}) \cup {account_id})
        /\ last' = [op |-> "create_account", meter_id |-> meter_id,
                    owner_id |-> owner_id, status |-> "ok",
                    account_id |-> account_id]
        /\ UNCHANGED <<created, nreads>>

\* The raise after the meter_id was entered in self.meters.
add_reading_unknown_entered(meter_id, value) ==
    /\ last' = [op |-> "add_reading", meter_id |-> meter_id, value |-> value,
                status |-> UnknownMeter]
    /\ meters' = dict_set(meters, meter_id, NoAccount)
    /\ UNCHANGED <<accounts, owners, created, nreads>>

\* The raise swallowed: the call returns normally.
add_reading_unknown_silent(meter_id, value) ==
    /\ last' = [op |-> "add_reading", meter_id |-> meter_id, value |-> value,
                status |-> "ok"]
    /\ UNCHANGED <<accounts, meters, owners, created, nreads>>

\* MeterDataManager.add_reading, meter_id not in self.meters: the raise.
add_reading_unknown(meter_id, value) ==
    /\ last' = [op |-> "add_reading", meter_id |-> meter_id, value |-> value,
                status |-> UnknownMeter]
    /\ UNCHANGED <<accounts, meters, owners, created, nreads>>

\* MeterDataManager.add_reading, meter_id in self.meters; now is the value
\* datetime.now() returns.
add_reading_known(meter_id, value, now) ==
    LET account_id == meters[meter_id]
        account == accounts[account_id]
        reading == [oid |-> created + 1,
                    reading_id |-> Len(account.readings) + 1,
                    meter_id |-> meter_id,
                    timestamp |-> now,
                    value |-> value,
                    status |-> RECEIVED]
    IN  /\ accounts' = [accounts EXCEPT
                           ![account_id] = account_add_reading(@, reading)]
        /\ created' = created + 1
        /\ last' = [op |-> "add_reading", meter_id |-> meter_id,
                    value |-> value, status |-> "ok", reading |-> reading]
        /\ UNCHANGED <<meters, owners, nreads>>

\* MeterDataManager.add_reading
add_reading(meter_id, value, now) ==
    IF meter_id \notin DOMAIN meters
    THEN add_reading_unknown(meter_id, value)
    ELSE add_reading_known(meter_id, value, now)

----------------------------------------------------------------------------
\* The operations, as the callers of the store issue them.

CreateAccount ==
    /\ UNCHANGED outside_manager
    /\ \E meter_id \in MeterIds, owner_id \in OwnerIds :
           /\ Cardinality(DOMAIN accounts) < MaxAccounts
           /\ create_account(meter_id, owner_id)

\* datetime.now() is the local wall clock, which may be set back: now is any
\* timestamp.  It is read only once the meter is known to be registered.
AddReading ==
    /\ UNCHANGED outside_manager
    /\ \E meter_id \in MeterIds, value \in Values :
           IF meter_id \notin DOMAIN meters
           THEN add_reading(meter_id, value, NoneTs)
           ELSE /\ created < MaxReadings
                /\ \E now \in Timestamps : add_reading(meter_id, value, now)

\* The read operations are called on an account the caller holds (the one
\* create_account, get_account_by_meter or get_accounts_by_owner returned).

\* account.get_latest_reading()
call_get_latest_reading(account_id) ==
    /\ last' = [op |-> "get_latest_reading", account_id |-> account_id,
                status |-> "ok",
                result |-> get_latest_reading(accounts[account_id])]
    /\ UNCHANGED <<accounts, meters, owners, created>>

\* account.get_readings_by_date_range(start_date, end_date)
call_get_readings_by_date_range(account_id, start_date, end_date) ==
    /\ accounts' = [accounts EXCEPT ![account_id].readings_by_date =
                       dd_touch_range(@, start_date, end_date)]
    /\ last' = [op |-> "get_readings_by_date_range",
                account_id |-> account_id,
                start_date |-> start_date, end_date |-> end_date,
                status |-> "ok",
                result |-> get_readings_by_date_range(
                              accounts[account_id], start_date, end_date)]
    /\ UNCHANGED <<meters, owners, created>>

\* account.get_daily_consumption(target_date)
call_get_daily_consumption(account_id, target_date) ==
    /\ accounts' = [accounts EXCEPT ![account_id].readings_by_date =
                       dd_touch(@, target_date)]
    /\ last' = [op |-> "get_daily_consumption",
                account_id |-> account_id, target_date |-> target_date,
                status |-> "ok",
                result |-> get_daily_consumption(
                              accounts[account_id], target_date)]
    /\ UNCHANGED <<meters, owners, created>>

\* The store as a whole: at most MaxAccounts accounts, MaxReadings readings
\* and MaxReads read operations.

GetLatestReading ==
    /\ UNCHANGED outside_manager
    /\ \E account_id \in DOMAIN accounts :
           /\ nreads < MaxReads
           /\ nreads' = nreads + 1
           /\ call_get_latest_reading(account_id)

GetReadingsByDateRange ==
    /\ UNCHANGED outside_manager
    /\ \E account_id \in DOMAIN accounts, start_date \in Dates, end_date \in Dates :
           /\ nreads < MaxReads
           /\ nreads' = nreads + 1
           /\ call_get_readings_by_date_range(account_id, start_date, end_date)

GetDailyConsumption ==
    /\ UNCHANGED outside_manager
    /\ \E account_id \in DOMAIN accounts, target_date \in Dates :
           /\ nreads < MaxReads
           /\ nreads' = nreads + 1
           /\ call_get_daily_consumption(account_id, target_date)

\* One account: a single registration, then add_reading calls and any
\* number of read operations on the account, in any order.

RegisterAccount ==
    /\ UNCHANGED outside_manager
    /\ \E owner_id \in OwnerIds :
           /\ DOMAIN accounts = {}
           /\ create_account(Meter123, owner_id)

LatestReading ==
    /\ UNCHANGED outside_manager
    /\ \E account_id \in DOMAIN accounts :
           /\ call_get_latest_reading(account_id)
           /\ UNCHANGED nreads

ReadingsByDateRange ==
    /\ UNCHANGED outside_manager
    /\ \E account_id \in DOMAIN accounts, start_date \in Dates, end_date \in Dates :
           /\ call_get_readings_by_date_range(account_id, start_date, end_date)
           /\ UNCHANGED nreads

DailyConsumption ==
    /\ UNCHANGED outside_manager
    /\ \E account_id \in DOMAIN accounts, target_date \in Dates :
           /\ call_get_daily_consumption(account_id, target_date)
           /\ UNCHANGED nreads

\* MeterDataManager.__init__
Init ==
    /\ accounts = <<>>
    /\ meters = <<>>
    /\ owners = <<>>
    /\ created = 0
    /\ nreads = 0
    /\ last = [op |-> "none"]
    /\ storage_accounts = <<>>
    /\ archive = <<>>
    /\ pc = [t \in Threads |-> "idle"]
    /\ frame = [t \in Threads |-> [op |-> "none"]]
    /\ lock = NoThread
    /\ account_lock = <<>>
    /\ simulators = <<>>
    /\ sims = <<>>

Next ==
    \/ CreateAccount
    \/ AddReading
    \/ GetLatestReading
    \/ GetReadingsByDateRange
    \/ GetDailyConsumption

Spec == Init /\ [][Next]_vars

NextAccount ==
    \/ RegisterAccount
    \/ AddReading
    \/ LatestReading
    \/ ReadingsByDateRange
    \/ DailyConsumption

SpecAccount == Init /\ [][NextAccount]_vars

----------------------------------------------------------------------------
\* The lookups of the MeterDataManager.

UnknownAccount == "MeterReadingException: Unknown account ID"

\* The account ids a caller may name: "ACC-000001" .. .
AccountIds == 1..MaxAccounts

\* get_consumption_summary, "if not account": the raise.
get_consumption_summary_unknown(account_id, start_date, end_date) ==
    /\ last' = [op |-> "get_consumption_summary", account_id |-> account_id,
                start_date |-> start_date, end_date |-> end_date,
                status |-> UnknownAccount]
    /\ UNCHANGED <<accounts, meters, owners, created, nreads>>

\* The summary computed over the range without its last day.
consumption_summary_exclusive(account, start_date, end_date) ==
    LET readings == range_exclusive(account, start_date, end_date)
        dates == {reading_date(readings[i]) : i \in 1..Len(readings)}
    IN  [account_id |-> account.account_id,
         start_date |-> start_date,
         end_date |-> end_date,
         total_consumption |-> py_sum(readings),
         daily_consumption |->
             [d \in dates |->
                 py_sum(SelectSeq(readings,
                                  LAMBDA r : reading_date(r) = d))]]

\* get_consumption_summary: the dict returned for an account of the store.
consumption_summary(account, start_date, end_date) ==
    LET readings == get_readings_by_date_range(account, start_date, end_date)
        dates == {reading_date(readings[i]) : i \in 1..Len(readings)}
    IN  [account_id |-> account.account_id,
         start_date |-> start_date,
         end_date |-> end_date,
         total_consumption |-> py_sum(readings),
         daily_consumption |->
             [d \in dates |->
                 py_sum(SelectSeq(readings,
                                  LAMBDA r : reading_date(r) = d))]]

\* MeterDataManager.get_consumption_summary
get_consumption_summary(account_id, start_date, end_date) ==
    IF account_id \notin DOMAIN accounts
    THEN get_consumption_summary_unknown(account_id, start_date, end_date)
    ELSE /\ accounts' = [accounts EXCEPT ![account_id].readings_by_date =
                            dd_touch_range(@, start_date, end_date)]
         /\ last' = [op |-> "get_consumption_summary",
                     account_id |-> account_id,
                     start_date |-> start_date, end_date |-> end_date,
                     status |-> "ok",
                     result |-> consumption_summary(accounts[account_id],
                                                    start_date, end_date)]
         /\ UNCHANGED <<meters, owners, created, nreads>>

\* The ranges a summary is asked for: the whole period and its last day.
SummaryRanges ==
    {<<start_date, date_of(MaxTime)>> : start_date \in {0, date_of(MaxTime)}}

ConsumptionSummary ==
    /\ UNCHANGED outside_manager
    /\ \E account_id \in AccountIds, range \in SummaryRanges :
           get_consumption_summary(account_id, range[1], range[2])

\* manager.get_account_by_meter(meter_id)
AccountByMeter ==
    /\ UNCHANGED outside_manager
    /\ \E meter_id \in MeterIds :
           /\ last' = [op |-> "get_account_by_meter", meter_id |-> meter_id,
                       status |-> "ok",
                       result |-> get_account_by_meter(meter_id)]
           /\ UNCHANGED <<accounts, meters, owners, created, nreads>>

\* list(a_set): the members in the order the set iterates them.
list_of(a_set) ==
    CHOOSE l \in [1..Cardinality(a_set) -> a_set] :
        {l[i] : i \in 1..Cardinality(a_set)} = a_set

\* set(a_list)
set_of(a_list) == {a_list[i] : i \in 1..Len(a_list)}

\* ElectricityAccount.to_dict: the readings are not part of it.
account_to_dict(account) ==
    [account_id |-> account.account_id,
     meter_id |-> account.meter_id,
     owner |-> account.owner,
     last_reading_date |-> account.last_reading_date]

\* MeterDataManager.to_json: the data json.dumps writes.
to_json(manager) ==
    [accounts |-> [acc_id \in DOMAIN manager.accounts |->
                      account_to_dict(manager.accounts[acc_id])],
     meters |-> manager.meters,
     owners |-> [owner_id \in DOMAIN manager.owners |->
                    list_of(manager.owners[owner_id])]]

\* from_json rebuilding the accounts from their dicts.
from_json_restoring(data) ==
    [accounts |-> data.accounts,
     meters |-> data.meters,
     owners |-> [owner_id \in DOMAIN data.owners |->
                    set_of(data.owners[owner_id])]]

\* MeterDataManager.from_json: cls() has no accounts, and the loop over
\* data["accounts"] is "pass".
from_json(data) ==
    [accounts |-> <<>>,
     meters |-> data.meters,
     owners |-> [owner_id \in DOMAIN data.owners |->
                    set_of(data.owners[owner_id])]]

\* get_account_by_meter on a manager value.
manager_get_account_by_meter(manager, meter_id) ==
    LET account_id == dict_get(manager.meters, meter_id)
    IN  IF account_id \in DOMAIN manager.accounts THEN account_id ELSE NoAccount

\* self, as the methods of the manager see it.
self_manager == [accounts |-> accounts, meters |-> meters, owners |-> owners]

\* MeterDataManager.from_json(manager.to_json())
JsonRoundTrip ==
    /\ UNCHANGED outside_manager
    /\ last' = [op |-> "from_json", status |-> "ok",
                json |-> to_json(self_manager),
                result |-> from_json(to_json(self_manager))]
    /\ UNCHANGED <<accounts, meters, owners, created, nreads>>

NextManager ==
    \/ RegisterAccount
    \/ AddReading
    \/ ConsumptionSummary
    \/ AccountByMeter
    \/ LatestReading

SpecManager == Init /\ [][NextManager]_vars

\* A manager that is filled and saved: registration, readings, and the
\* round trip through JSON at any point.
NextJson ==
    \/ RegisterAccount
    \/ AddReading
    \/ JsonRoundTrip

SpecJson == Init /\ [][NextJson]_vars

----------------------------------------------------------------------------
\* The MeterDataManager called from several threads.  A thread stands at
\* "idle" (not in a call), at the "with self._lock" of the method it called
\* (pc is the method's name), or at the next statement it will run that
\* writes the store.  The statements from the acquisition of a lock to the
\* first write, and from the last write to the release, read only what the
\* lock protects and are one step each.  The read methods take no lock and
\* run at any time.

\* The threads that have called a method and not returned.
in_call(t) == pc[t] # "idle"

\* The threads inside create_account(meter_id, ...).
creating(meter_id) ==
    {u \in Threads : /\ in_call(u)
                     /\ frame[u].op = "create_account"
                     /\ frame[u].meter_id = meter_id}

\* frame with the call of t recorded.  A create_account records whether a
\* create_account of another thread for the same meter_id ran while it did.
call_frame(t, call) ==
    LET rivals == IF call.op = "create_account"
                  THEN creating(call.meter_id) \ {t} ELSE {}
    IN  [u \in Threads |->
            IF u = t THEN
                IF call.op = "create_account"
                THEN call @@ [raced |-> rivals # {}] ELSE call
            ELSE IF u \in rivals THEN [frame[u] EXCEPT !.raced = TRUE]
            ELSE frame[u]]

\* The frame of a thread that is not in a call.
NoCall == [op |-> "none"]

\* The value the threads submit, in tenths of a kWh.
ThreadValues == {7}

\* The holder of the lock of an account.
account_lock_holder(account_id) ==
    IF account_id \in DOMAIN account_lock
    THEN account_lock[account_id] ELSE NoThread

\* thread t calls manager.create_account(meter_id, owner)
CallCreateAccount ==
    /\ UNCHANGED sim_vars
    /\ UNCHANGED <<accounts, meters, owners, created, nreads, last,
                   storage_vars, lock, account_lock>>
    /\ \E t \in Threads, meter_id \in MeterIds, owner_id \in OwnerIds :
           /\ pc[t] = "idle"
           /\ Cardinality(DOMAIN accounts)
                + Cardinality({u \in Threads : pc[u] = "create_account"})
                < MaxAccounts
           /\ pc' = [pc EXCEPT ![t] = "create_account"]
           /\ frame' = call_frame(t, [op |-> "create_account",
                                      meter_id |-> meter_id,
                                      owner_id |-> owner_id])

\* create_account: "with self._lock" entered, the account_id formatted, the
\* account constructed, self.accounts[account_id] = account
CreateAccountAccounts ==
    /\ UNCHANGED sim_vars
    /\ UNCHANGED <<meters, owners, created, nreads, last, storage_vars>>
    /\ \E t \in Threads :
           LET account_id == Cardinality(DOMAIN accounts) + 1
               account == new_account(account_id, frame[t].meter_id,
                                      frame[t].owner_id)
           IN  /\ pc[t] = "create_account"
               /\ lock = NoThread
               /\ lock' = t
               /\ accounts' = dict_set(accounts, account_id, account)
               /\ UNCHANGED account_lock
               /\ frame' = [frame EXCEPT ![t] =
                               @ @@ [account_id |-> account_id]]
               /\ pc' = [pc EXCEPT ![t] = "create_account:meters"]

\* create_account: self.meters[meter_id] = account_id
CreateAccountMeters ==
    /\ UNCHANGED sim_vars
    /\ UNCHANGED <<accounts, owners, created, nreads, last, storage_vars,
                   frame, lock, account_lock>>
    /\ \E t \in Threads :
           /\ pc[t] = "create_account:meters"
           /\ meters' = dict_set(meters, frame[t].meter_id, frame[t].account_id)
           /\ pc' = [pc EXCEPT ![t] = "create_account:owners"]

\* create_account: self.owners[owner.owner_id].add(account_id), the lock
\* released, the account returned
CreateAccountReturn ==
    /\ UNCHANGED sim_vars
    /\ UNCHANGED <<accounts, meters, created, nreads, last, storage_vars,
                   account_lock>>
    /\ \E t \in Threads :
           LET owner_id == frame[t].owner_id
           IN  /\ pc[t] = "create_account:owners"
               /\ owners' = dict_set(owners, owner_id,
                                (IF owner_id \in DOMAIN owners
                                 THEN owners[owner_id] ELSE {})
                                \cup {frame[t].account_id})
               /\ lock' = NoThread
               /\ frame' = [frame EXCEPT ![t] = NoCall]
               /\ pc' = [pc EXCEPT ![t] = "idle"]

\* thread t calls manager.add_reading(meter_id, value)
CallAddReading ==
    /\ UNCHANGED sim_vars
    /\ UNCHANGED <<accounts, meters, owners, created, nreads, last,
                   storage_vars, lock, account_lock>>
    /\ \E t \in Threads, meter_id \in MeterIds, value \in ThreadValues :
           /\ pc[t] = "idle"
           /\ created + Cardinality({u \in Threads : pc[u] = "add_reading"})
                < MaxReadings
           /\ pc' = [pc EXCEPT ![t] = "add_reading"]
           /\ frame' = call_frame(t, [op |-> "add_reading",
                                      meter_id |-> meter_id, value |-> value])

\* add_reading: "with self._lock" entered, meter_id not in self.meters: the
\* raise, which releases the lock
AddReadingRaise ==
    /\ UNCHANGED sim_vars
    /\ UNCHANGED <<accounts, meters, owners, created, nreads, last,
                   storage_vars, lock, account_lock>>
    /\ \E t \in Threads :
           /\ pc[t] = "add_reading"
           /\ lock = NoThread
           /\ frame[t].meter_id \notin DOMAIN meters
           /\ frame' = [frame EXCEPT ![t] = NoCall]
           /\ pc' = [pc EXCEPT ![t] = "idle"]

\* The account a reading for meter_id goes to is the first one created.
account_of_meter_first(meter_id) == 1

\* add_reading: account_id = self.meters[meter_id]
account_of_meter(meter_id) == meters[meter_id]

\* add_reading: "with self._lock" entered, the meter known, the account
\* looked up, the reading constructed, account.add_reading(reading) called
AddReadingConstruct ==
    /\ UNCHANGED sim_vars
    /\ UNCHANGED <<accounts, meters, owners, nreads, last, storage_vars,
                   account_lock>>
    /\ \E t \in Threads, now \in Timestamps :
           /\ pc[t] = "add_reading"
           /\ lock = NoThread
           /\ frame[t].meter_id \in DOMAIN meters
           /\ LET account_id == account_of_meter(frame[t].meter_id)
                  reading == [oid |-> created + 1,
                              reading_id |->
                                  Len(accounts[account_id].readings) + 1,
                              meter_id |-> frame[t].meter_id,
                              timestamp |-> now,
                              value |-> frame[t].value,
                              status |-> RECEIVED]
              IN  /\ lock' = t
                  /\ created' = created + 1
                  /\ frame' = [frame EXCEPT ![t] =
                                  @ @@ [account_id |-> account_id,
                                        reading |-> reading]]
                  /\ pc' = [pc EXCEPT ![t] = "account.add_reading"]

\* ElectricityAccount.add_reading: "with self._lock" entered,
\* bisect.insort(self.readings, reading, key=...)
AccountAddReadingInsort ==
    /\ UNCHANGED sim_vars
    /\ UNCHANGED <<meters, owners, created, nreads, last, storage_vars,
                   frame, lock>>
    /\ \E t \in Threads :
           LET account_id == frame[t].account_id
           IN  /\ pc[t] = "account.add_reading"
               /\ account_lock_holder(account_id) = NoThread
               /\ account_lock' = dict_set(account_lock, account_id, t)
               /\ accounts' = [accounts EXCEPT ![account_id].readings =
                                  insort(@, frame[t].reading)]
               /\ pc' = [pc EXCEPT ![t] = "account.add_reading:by_date"]

\* ElectricityAccount.add_reading:
\* bisect.insort(self.readings_by_date[reading_date], reading, key=...)
AccountAddReadingByDate ==
    /\ UNCHANGED sim_vars
    /\ UNCHANGED <<meters, owners, created, nreads, last, storage_vars,
                   frame, lock, account_lock>>
    /\ \E t \in Threads :
           /\ pc[t] = "account.add_reading:by_date"
           /\ accounts' = [accounts EXCEPT
                              ![frame[t].account_id].readings_by_date =
                                  bucket_insort(@, frame[t].reading)]
           /\ pc' = [pc EXCEPT ![t] = "account.add_reading:last_reading_date"]

\* ElectricityAccount.add_reading: self.last_reading_date set and the
\* account's lock released; add_reading: the manager's lock released, the
\* reading returned
AddReadingReturn ==
    /\ UNCHANGED sim_vars
    /\ UNCHANGED <<meters, owners, created, nreads, last, storage_vars>>
    /\ \E t \in Threads :
           LET account_id == frame[t].account_id
           IN  /\ pc[t] = "account.add_reading:last_reading_date"
               /\ accounts' = [accounts EXCEPT
                                  ![account_id].last_reading_date =
                                      frame[t].reading.timestamp]
               /\ account_lock' = dict_set(account_lock, account_id,
                                            NoThread)
               /\ lock' = NoThread
               /\ frame' = [frame EXCEPT ![t] = NoCall]
               /\ pc' = [pc EXCEPT ![t] = "idle"]

\* The read methods of ElectricityAccount take no lock: GetLatestReading and
\* GetDailyConsumption run in any state of the threads.

NextThreads ==
    \/ CallCreateAccount
    \/ CreateAccountAccounts
    \/ CreateAccountMeters
    \/ CreateAccountReturn
    \/ CallAddReading
    \/ AddReadingRaise
    \/ AddReadingConstruct
    \/ AccountAddReadingInsort
    \/ AccountAddReadingByDate
    \/ AddReadingReturn
    \/ GetLatestReading
    \/ GetDailyConsumption

SpecThreads == Init /\ [][NextThreads]_vars

\* Two clients, one meter each: every thread registers its own meter, once,
\* and submits readings for it, while the other does the same.
meter_of(t) == IF t = "t1" THEN Meter123 ELSE Meter12

\* create_account called and completed while no other thread holds the
\* manager's lock.
RegisterOwnMeter ==
    /\ UNCHANGED outside_manager
    /\ \E t \in Threads, owner_id \in OwnerIds :
           /\ pc[t] = "idle"
           /\ lock = NoThread
           /\ meter_of(t) \notin DOMAIN meters
           /\ create_account(meter_of(t), owner_id)

CallAddReadingOwnMeter ==
    /\ UNCHANGED sim_vars
    /\ UNCHANGED <<accounts, meters, owners, created, nreads, last,
                   storage_vars, lock, account_lock>>
    /\ \E t \in Threads, value \in ThreadValues :
           /\ pc[t] = "idle"
           /\ created + Cardinality({u \in Threads : pc[u] = "add_reading"})
                < MaxReadings
           /\ pc' = [pc EXCEPT ![t] = "add_reading"]
           /\ frame' = call_frame(t, [op |-> "add_reading",
                                      meter_id |-> meter_of(t),
                                      value |-> value])

NextTwoMeters ==
    \/ RegisterOwnMeter
    \/ CallAddReadingOwnMeter
    \/ AddReadingRaise
    \/ AddReadingConstruct
    \/ AccountAddReadingInsort
    \/ AccountAddReadingByDate
    \/ AddReadingReturn

SpecTwoMeters == Init /\ [][NextTwoMeters]_vars

----------------------------------------------------------------------------
\* data_models.py (Account, MeterReading, Storage) and the daily archival of
\* maintenance.py.  A date key, strftime("%Y-%m-%d"), is the date it writes;
\* a file of archive/daily is named by its path <<date key, meter_id>>.

AccountNotFound == "ValueError: Account not found"

\* Account(meter_id, ...): readings defaults to an empty dict.
new_storage_account(meter_id) == [meter_id |-> meter_id, readings |-> <<>>]

\* MeterReading(timestamp, value), a dataclass: readings of equal fields
\* are equal.
MeterReading(timestamp, value) == [timestamp |-> timestamp, value |-> value]

\* current_time.strftime("%Y-%m-%d")
date_key(current_time) == date_of(current_time)

\* timedelta(days=n), in ticks
timedelta_days(n) == 2 * n

\* del d[k]
dict_del(d, k) == [x \in DOMAIN d \ {k} |-> d[x]]

\* account.readings.get(date, []), as the dashboards read a day's readings
readings_get(account, date) ==
    IF date \in DOMAIN account.readings THEN account.readings[date] ELSE <<>>

\* Storage.save_account: self.accounts[account.meter_id] = account
save_account(meter_id) ==
    /\ storage_accounts' = dict_set(storage_accounts, meter_id,
                                    new_storage_account(meter_id))
    /\ last' = [op |-> "save_account", meter_id |-> meter_id, status |-> "ok"]
    /\ UNCHANGED <<archive, created>>

\* Storage.add_reading, meter_id not in self.accounts: the raise.
storage_add_reading_not_found(meter_id, reading) ==
    /\ last' = [op |-> "storage_add_reading", meter_id |-> meter_id,
                reading |-> reading, status |-> AccountNotFound]
    /\ UNCHANGED <<storage_accounts, archive, created>>

\* Storage.add_reading: the dict of the account after
\* "if date_key not in readings: readings[date_key] = []" and the append.
readings_append(readings, key_, reading_obj) ==
    dict_set(readings, key_,
             Append(IF key_ \in DOMAIN readings THEN readings[key_] ELSE <<>>,
                    reading_obj))

\* Storage.add_reading, meter_id in self.accounts; current_time is the
\* value datetime.now() returns.
storage_add_reading_found(meter_id, reading, current_time) ==
    LET reading_obj == MeterReading(current_time, reading)
    IN  /\ storage_accounts' =
               [storage_accounts EXCEPT ![meter_id].readings =
                    readings_append(@, date_key(current_time), reading_obj)]
        /\ created' = created + 1
        /\ last' = [op |-> "storage_add_reading", meter_id |-> meter_id,
                    reading |-> reading, status |-> "ok",
                    reading_obj |-> reading_obj]
        /\ UNCHANGED archive

\* Storage.add_reading
storage_add_reading(meter_id, reading, current_time) ==
    IF meter_id \notin DOMAIN storage_accounts
    THEN storage_add_reading_not_found(meter_id, reading)
    ELSE storage_add_reading_found(meter_id, reading, current_time)

\* MaintenanceJobs._archive_daily_data: yesterday
yesterday_of(now) == date_key(now - timedelta_days(1))

\* The file written without the day's first reading.
readings_data_tail(readings) ==
    [i \in 1..(Len(readings) - 1) |->
        [timestamp |-> readings[i + 1].timestamp,
         value |-> readings[i + 1].value]]

\* readings_data: one {"timestamp", "value"} record per reading, in order.
readings_data(readings) ==
    [i \in 1..Len(readings) |->
        [timestamp |-> readings[i].timestamp, value |-> readings[i].value]]

\* The account left as it was: nothing removed from memory.
archived_account_kept(account, yesterday) == account

\* _archive_daily_data, "del account.readings[yesterday]": the account after.
archived_account(account, yesterday) ==
    [account EXCEPT !.readings = dict_del(@, yesterday)]

\* MaintenanceJobs._archive_daily_data: the loop over storage.accounts.  Every
\* account holding the key yesterday has its file written (mode 'w': a file
\* of the same path is replaced) and the key deleted.

\* The accounts that pass "if yesterday in account.readings".
archive_held(yesterday) ==
    {m \in DOMAIN storage_accounts :
        yesterday \in DOMAIN storage_accounts[m].readings}

\* What the call writes, by account.
archive_written(yesterday) ==
    [m \in archive_held(yesterday) |->
        readings_data(storage_accounts[m].readings[yesterday])]

\* The files of archive/daily after the call.
archive_files(yesterday) ==
    [path \in DOMAIN archive \cup ({yesterday} \X archive_held(yesterday)) |->
        IF path[1] = yesterday /\ path[2] \in archive_held(yesterday)
        THEN archive_written(yesterday)[path[2]] ELSE archive[path]]

\* storage.accounts after the call.
archive_accounts(yesterday) ==
    [m \in DOMAIN storage_accounts |->
        IF m \in archive_held(yesterday)
        THEN archived_account(storage_accounts[m], yesterday)
        ELSE storage_accounts[m]]

archive_daily_data(now) ==
    LET yesterday == yesterday_of(now)
    IN  /\ archive' = archive_files(yesterday)
        /\ storage_accounts' = archive_accounts(yesterday)
        /\ last' = [op |-> "archive_daily_data", yesterday |-> yesterday,
                    status |-> "ok", written |-> archive_written(yesterday)]
        /\ UNCHANGED created

\* The value submitted to the Storage, in tenths of a kWh: readings of one
\* timestamp are then equal objects.
StorageValues == {7}

\* What a call on the Storage leaves alone.
outside_storage == <<accounts, meters, owners, nreads, thread_vars, sim_vars>>

SaveAccount ==
    /\ UNCHANGED outside_storage
    /\ \E meter_id \in MeterIds : save_account(meter_id)

StorageAddReading ==
    /\ UNCHANGED outside_storage
    /\ \E meter_id \in MeterIds, reading \in StorageValues :
           IF meter_id \notin DOMAIN storage_accounts
           THEN storage_add_reading(meter_id, reading, NoneTs)
           ELSE /\ created < MaxReadings
                /\ \E current_time \in Timestamps :
                       storage_add_reading(meter_id, reading, current_time)

\* The maintenance job runs at any time of any day.
ArchiveDailyData ==
    /\ UNCHANGED outside_storage
    /\ \E now \in Timestamps : archive_daily_data(now)

NextStorage ==
    \/ SaveAccount
    \/ StorageAddReading
    \/ ArchiveDailyData

SpecStorage == Init /\ [][NextStorage]_vars

\* Storage.archive_daily_data.  The class body defines the method twice and
\* the second definition is the one the class keeps: it writes the file of
\* every account holding the current date, deletes nothing and returns True.
storage_archive_daily_data(now) ==
    LET current_date == date_key(now)
    IN  /\ archive' = archive_files(current_date)
        /\ last' = [op |-> "Storage.archive_daily_data",
                    current_date |-> current_date, status |-> "ok",
                    written |-> archive_written(current_date)]
        /\ UNCHANGED <<storage_accounts, created>>

\* app.py cleanup() and any other caller: storage.archive_daily_data()
StorageArchiveDailyData ==
    /\ UNCHANGED outside_storage
    /\ \E now \in Timestamps : storage_archive_daily_data(now)

\* _cleanup_old_data keeps the dates of the last 30 days.
RetentionDays == 30

\* MaintenanceJobs._cleanup_old_data on the accounts accs.
cleanup_old_data(accs, now) ==
    LET cutoff_date == date_key(now - timedelta_days(RetentionDays))
    IN  [m \in DOMAIN accs |->
            [accs[m] EXCEPT !.readings =
                [date \in {d \in DOMAIN accs[m].readings : d >= cutoff_date} |->
                    accs[m].readings[date]]]]

\* MaintenanceJobs._prepare_daily_denormalized on the accounts accs: the
\* rows of data, one per account holding readings under yesterday.
daily_denormalized(accs, now) ==
    LET yesterday == yesterday_of(now)
        with_readings ==
            {m \in DOMAIN accs :
                /\ yesterday \in DOMAIN accs[m].readings
                /\ accs[m].readings[yesterday] # <<>>}
    IN  {[Date |-> yesterday,
          Consumption_kWh |->
              LET readings == accs[m].readings[yesterday]
              IN  readings[Len(readings)].value - readings[1].value,
          Meter_ID |-> accs[m].meter_id] : m \in with_readings}

\* MaintenanceJobs.run_daily_maintenance: archive, clean up, prepare the
\* denormalized rows; each step reads the clock itself.  _prepare_new_day
\* only empties storage/temp.  rows is the data of the csv file written,
\* empty when "if data" writes none.
run_daily_maintenance(now_archive, now_cleanup, now_prepare) ==
    LET yesterday == yesterday_of(now_archive)
        cleaned == cleanup_old_data(archive_accounts(yesterday), now_cleanup)
    IN  /\ archive' = archive_files(yesterday)
        /\ storage_accounts' = cleaned
        /\ last' = [op |-> "run_daily_maintenance", yesterday |-> yesterday,
                    status |-> "ok",
                    written |-> archive_written(yesterday),
                    rows |-> daily_denormalized(cleaned, now_prepare)]
        /\ UNCHANGED created

\* The job runs at any time of any day; the clock does not go back during
\* one run.
RunDailyMaintenance ==
    /\ UNCHANGED outside_storage
    /\ \E now_archive \in Timestamps, now_cleanup \in Timestamps,
          now_prepare \in Timestamps :
           /\ now_archive <= now_cleanup
           /\ now_cleanup <= now_prepare
           /\ run_daily_maintenance(now_archive, now_cleanup, now_prepare)

NextMaintenance ==
    \/ SaveAccount
    \/ StorageAddReading
    \/ StorageArchiveDailyData
    \/ RunDailyMaintenance

SpecMaintenance == Init /\ [][NextMaintenance]_vars

----------------------------------------------------------------------------
\* The Storage called from several threads: Storage.add_reading by the
\* request handlers, _archive_daily_data by the maintenance job.  Neither
\* takes a lock; a step is a statement that reads or writes account.readings.
\* An account is registered while no other call is in progress.

SaveAccountIdle ==
    /\ UNCHANGED outside_storage
    /\ \A t \in Threads : pc[t] = "idle"
    /\ \E meter_id \in MeterIds : save_account(meter_id)

\* thread t calls storage.add_reading(meter_id, reading) for an account
\* that exists and reads the clock
StorageCallAddReading ==
    /\ UNCHANGED sim_vars
    /\ UNCHANGED <<accounts, meters, owners, created, nreads, last,
                   storage_vars, lock, account_lock>>
    /\ \E t \in Threads, meter_id \in DOMAIN storage_accounts,
          reading \in StorageValues, current_time \in Timestamps :
           /\ pc[t] = "idle"
           /\ created
                + Cardinality({u \in Threads : in_call(u) /\
                                   frame[u].op = "storage.add_reading"})
                < MaxReadings
           /\ frame' = [frame EXCEPT ![t] =
                           [op |-> "storage.add_reading",
                            meter_id |-> meter_id,
                            reading |-> reading,
                            current_time |-> current_time]]
           /\ pc' = [pc EXCEPT ![t] = "storage.add_reading:if"]

\* Storage.add_reading:
\* "if date_key not in readings: readings[date_key] = []"
StorageAddReadingIf ==
    /\ UNCHANGED sim_vars
    /\ UNCHANGED <<accounts, meters, owners, created, nreads, last, archive,
                   frame, lock, account_lock>>
    /\ \E t \in Threads :
           LET key_ == date_key(frame[t].current_time)
           IN  /\ pc[t] = "storage.add_reading:if"
               /\ storage_accounts' =
                      [storage_accounts EXCEPT ![frame[t].meter_id].readings =
                          IF key_ \in DOMAIN @ THEN @
                          ELSE dict_set(@, key_, <<>>)]
               /\ pc' = [pc EXCEPT ![t] = "storage.add_reading:append"]

\* Storage.add_reading: readings[date_key].append(reading_obj), and the
\* return; the subscript raises KeyError, and nothing is appended, when the
\* key is no longer there.
StorageAddReadingAppend ==
    /\ UNCHANGED sim_vars
    /\ UNCHANGED <<accounts, meters, owners, nreads, last, archive, lock,
                   account_lock>>
    /\ \E t \in Threads :
           LET meter_id == frame[t].meter_id
               key_ == date_key(frame[t].current_time)
               reading_obj == MeterReading(frame[t].current_time,
                                           frame[t].reading)
           IN  /\ pc[t] = "storage.add_reading:append"
               /\ storage_accounts' =
                      IF key_ \in DOMAIN storage_accounts[meter_id].readings
                      THEN [storage_accounts EXCEPT ![meter_id].readings =
                               readings_append(@, key_, reading_obj)]
                      ELSE storage_accounts
               /\ created' = created + 1
               /\ frame' = [frame EXCEPT ![t] = NoCall]
               /\ pc' = [pc EXCEPT ![t] = "idle"]

\* thread t calls _archive_daily_data(): yesterday, and the iteration over
\* storage.accounts.values() begun
ArchiveCall ==
    /\ UNCHANGED sim_vars
    /\ UNCHANGED <<accounts, meters, owners, created, nreads, last,
                   storage_vars, lock, account_lock>>
    /\ \E t \in Threads, now \in Timestamps :
           /\ pc[t] = "idle"
           /\ frame' = [frame EXCEPT ![t] =
                           [op |-> "archive_daily_data",
                            yesterday |-> yesterday_of(now),
                            todo |-> DOMAIN storage_accounts]]
           /\ pc' = [pc EXCEPT ![t] = "archive_daily_data:for"]

\* _archive_daily_data: the next account of the iteration;
\* "if yesterday in account.readings", readings_data built and written to
\* the file of the account
ArchiveWrite ==
    /\ UNCHANGED sim_vars
    /\ UNCHANGED <<accounts, meters, owners, created, nreads, last,
                   storage_accounts, lock, account_lock>>
    /\ \E t \in Threads :
           /\ pc[t] = "archive_daily_data:for"
           /\ \E m \in frame[t].todo :
                  LET yesterday == frame[t].yesterday
                      account == storage_accounts[m]
                  IN  IF yesterday \in DOMAIN account.readings
                      THEN /\ archive' =
                                  dict_set(archive, <<yesterday, m>>,
                                      readings_data(
                                          account.readings[yesterday]))
                           /\ frame' = [frame EXCEPT ![t] =
                                           @ @@ [meter_id |-> m]]
                           /\ pc' = [pc EXCEPT
                                        ![t] = "archive_daily_data:del"]
                      ELSE /\ frame' = [frame EXCEPT ![t].todo = @ \ {m}]
                           /\ UNCHANGED <<archive, pc>>

\* _archive_daily_data: "del account.readings[yesterday]"; KeyError ends
\* the call when the key is no longer there
ArchiveDelete ==
    /\ UNCHANGED sim_vars
    /\ UNCHANGED <<accounts, meters, owners, created, nreads, last, archive,
                   lock, account_lock>>
    /\ \E t \in Threads :
           LET m == frame[t].meter_id
               yesterday == frame[t].yesterday
           IN  /\ pc[t] = "archive_daily_data:del"
               /\ IF yesterday \in DOMAIN storage_accounts[m].readings
                  THEN /\ storage_accounts' =
                              [storage_accounts EXCEPT
                                  ![m] = archived_account(@, yesterday)]
                       /\ frame' = [frame EXCEPT ![t] =
                                       [op |-> "archive_daily_data",
                                        yesterday |-> yesterday,
                                        todo |-> frame[t].todo \ {m}]]
                       /\ pc' = [pc EXCEPT ![t] = "archive_daily_data:for"]
                  ELSE /\ UNCHANGED storage_accounts
                       /\ frame' = [frame EXCEPT ![t] = NoCall]
                       /\ pc' = [pc EXCEPT ![t] = "idle"]

\* _archive_daily_data: the iteration exhausted, the return
ArchiveReturn ==
    /\ UNCHANGED sim_vars
    /\ UNCHANGED <<accounts, meters, owners, created, nreads, last,
                   storage_vars, lock, account_lock>>
    /\ \E t \in Threads :
           /\ pc[t] = "archive_daily_data:for"
           /\ frame[t].todo = {}
           /\ frame' = [frame EXCEPT ![t] = NoCall]
           /\ pc' = [pc EXCEPT ![t] = "idle"]

NextStorageThreads ==
    \/ SaveAccountIdle
    \/ StorageCallAddReading
    \/ StorageAddReadingIf
    \/ StorageAddReadingAppend
    \/ ArchiveCall
    \/ ArchiveWrite
    \/ ArchiveDelete
    \/ ArchiveReturn

SpecStorageThreads == Init /\ [][NextStorageThreads]_vars

----------------------------------------------------------------------------
\* meter_simulator.py: the MeterSimulatorManager of app.py, called by the
\* request handlers (add_meter) and by cleanup() (stop_all), and the thread
\* of each MeterSimulator.

\* The MeterSimulator objects created in one run of the model.
MaxSimulators == 3

\* MeterSimulator.__init__
new_simulator(meter_id) ==
    [meter_id |-> meter_id, running |-> FALSE, thread |-> "None",
     at |-> "while", sent_stopped |-> 0]

\* meter_id in self.simulators
managed(meter_id) ==
    \E i \in 1..Len(simulators) : simulators[i].meter_id = meter_id

\* self.simulators[meter_id] = simulator: a key the dict holds keeps its
\* place, a new key goes last.
simulators_set(meter_id, simulator) ==
    LET item == [meter_id |-> meter_id, simulator |-> simulator]
    IN  IF managed(meter_id)
        THEN [i \in 1..Len(simulators) |->
                 IF simulators[i].meter_id = meter_id
                 THEN item ELSE simulators[i]]
        ELSE Append(simulators, item)

\* The calls of add_meter that have passed the test and not yet built
\* their simulator.
constructing ==
    {t \in Threads : pc[t] = "add_meter:if" /\ ~frame[t].managed}

\* add_meter, "if meter_id not in self.simulators": the test.  No call is
\* issued once a stop_all has returned.
AddMeterCall ==
    /\ UNCHANGED <<accounts, meters, owners, created, nreads, last,
                   storage_vars, lock, account_lock, sim_vars>>
    /\ \E t \in Threads, meter_id \in MeterIds :
           /\ pc[t] = "idle"
           /\ \A u \in Threads : pc[u] # "stopped"
           /\ Len(sims) + Cardinality(constructing) < MaxSimulators
           /\ pc' = [pc EXCEPT ![t] = "add_meter:if"]
           /\ frame' = [frame EXCEPT ![t] =
                            [op |-> "add_meter", meter_id |-> meter_id,
                             managed |-> managed(meter_id),
                             simulator |-> 0]]

\* add_meter for a meter found in self.simulators: nothing to do.
add_meter_return(t) ==
    /\ UNCHANGED <<accounts, meters, owners, created, nreads, last,
                   storage_vars, lock, account_lock, sim_vars>>
    /\ pc[t] = "add_meter:if"
    /\ frame[t].managed
    /\ pc' = [pc EXCEPT ![t] = "idle"]
    /\ frame' = [frame EXCEPT ![t] = NoCall]

AddMeterReturn == \E t \in Threads : add_meter_return(t)

\* simulator = MeterSimulator(...); self.simulators[meter_id] = simulator
add_meter_store(t) ==
    /\ UNCHANGED <<accounts, meters, owners, created, nreads, last,
                   storage_vars, lock, account_lock>>
    /\ pc[t] = "add_meter:if"
    /\ ~frame[t].managed
    /\ sims' = Append(sims, new_simulator(frame[t].meter_id))
    /\ simulators' = simulators_set(frame[t].meter_id, Len(sims) + 1)
    /\ pc' = [pc EXCEPT ![t] = "add_meter:start"]
    /\ frame' = [frame EXCEPT ![t].simulator = Len(sims) + 1]

AddMeterStore == \E t \in Threads : add_meter_store(t)

\* simulator.start(): running = True, and the thread is started.
simulator_start(t) ==
    /\ UNCHANGED <<accounts, meters, owners, created, nreads, last,
                   storage_vars, lock, account_lock, simulators>>
    /\ pc[t] = "add_meter:start"
    /\ sims' = [sims EXCEPT ![frame[t].simulator].running = TRUE,
                            ![frame[t].simulator].thread = "alive"]
    /\ pc' = [pc EXCEPT ![t] = "idle"]
    /\ frame' = [frame EXCEPT ![t] = NoCall]

AddMeterStart == \E t \in Threads : simulator_start(t)

\* stop_all: the for loop is entered; the iterator of the dict remembers
\* its size.
StopAllCall ==
    /\ UNCHANGED <<accounts, meters, owners, created, nreads, last,
                   storage_vars, lock, account_lock, sim_vars>>
    /\ \E t \in Threads :
           /\ pc[t] = "idle"
           /\ pc' = [pc EXCEPT ![t] = "stop_all:for"]
           /\ frame' = [frame EXCEPT ![t] =
                            [op |-> "stop_all", index |-> 1,
                             size |-> Len(simulators), joining |-> 0]]

\* stop_all, one turn of "for simulator in self.simulators.values()": the
\* iterator raises RuntimeError when the dict has changed size, the loop
\* ends after the last value, and otherwise simulator.stop() sets
\* running = False.
stop_all_for(t) ==
    /\ UNCHANGED <<accounts, meters, owners, created, nreads, last,
                   storage_vars, lock, account_lock, simulators>>
    /\ pc[t] = "stop_all:for"
    /\ IF Len(simulators) # frame[t].size
       THEN /\ pc' = [pc EXCEPT ![t] = "stop_all:RuntimeError"]
            /\ UNCHANGED <<frame, sims>>
       ELSE IF frame[t].index > Len(simulators)
       THEN /\ pc' = [pc EXCEPT ![t] = "stopped"]
            /\ UNCHANGED <<frame, sims>>
       ELSE /\ sims' = [sims EXCEPT
                           ![simulators[frame[t].index].simulator].running
                               = FALSE]
            /\ pc' = [pc EXCEPT ![t] = "stop:join"]
            /\ frame' = [frame EXCEPT ![t].joining =
                             simulators[frame[t].index].simulator]

StopAllFor == \E t \in Threads : stop_all_for(t)

\* stop(), "if self.thread: self.thread.join()": returns when the simulator
\* has no thread or its thread has ended.
simulator_stop_join(t) ==
    /\ UNCHANGED <<accounts, meters, owners, created, nreads, last,
                   storage_vars, lock, account_lock, sim_vars>>
    /\ pc[t] = "stop:join"
    /\ sims[frame[t].joining].thread # "alive"
    /\ pc' = [pc EXCEPT ![t] = "stop_all:for"]
    /\ frame' = [frame EXCEPT ![t].index = @ + 1]

StopJoin == \E t \in Threads : simulator_stop_join(t)

\* The simulators that may exist.
SimulatorIds == 1..MaxSimulators

\* _run_simulation, "while self.running": the test.
run_simulation_while(s) ==
    /\ UNCHANGED <<accounts, meters, owners, created, nreads, last,
                   storage_vars, thread_vars, simulators>>
    /\ s <= Len(sims)
    /\ sims[s].thread = "alive"
    /\ sims[s].at = "while"
    /\ sims' = [sims EXCEPT ![s] =
                   IF @.running
                   THEN [@ EXCEPT !.at = "iteration"]
                   ELSE [@ EXCEPT !.thread = "ended"]]

SimWhile == \E s \in SimulatorIds : run_simulation_while(s)

\* _run_simulation, the body of the loop: in hour 0 nothing is sent, in any
\* other hour one reading is posted (with a timeout); then sleep(30).
\* sent_stopped counts the readings posted while running is False.
run_simulation_iteration(s) ==
    /\ UNCHANGED <<accounts, meters, owners, created, nreads, last,
                   storage_vars, thread_vars, simulators>>
    /\ s <= Len(sims)
    /\ sims[s].thread = "alive"
    /\ sims[s].at = "iteration"
    /\ \E current_hour \in {0, 1} :
           sims' = [sims EXCEPT ![s] =
                       [@ EXCEPT
                           !.at = "while",
                           !.sent_stopped =
                               IF current_hour # 0 /\ ~sims[s].running
                               THEN @ + 1 ELSE @]]

SimIteration == \E s \in SimulatorIds : run_simulation_iteration(s)

NextSimulators ==
    \/ AddMeterCall
    \/ AddMeterReturn
    \/ AddMeterStore
    \/ AddMeterStart
    \/ StopAllCall
    \/ StopAllFor
    \/ StopJoin
    \/ SimWhile
    \/ SimIteration

\* A call that has begun goes on, and a started thread is scheduled: the
\* sleeps end and the post has a timeout.
SpecSimulators ==
    /\ Init
    /\ [][NextSimulators]_vars
    /\ \A t \in Threads :
           /\ WF_vars(add_meter_return(t))
           /\ WF_vars(add_meter_store(t))
           /\ WF_vars(simulator_start(t))
           /\ WF_vars(stop_all_for(t))
           /\ WF_vars(simulator_stop_join(t))
    /\ \A s \in SimulatorIds :
           /\ WF_vars(run_simulation_while(s))
           /\ WF_vars(run_simulation_iteration(s))

----------------------------------------------------------------------------
\* Helpers of the properties.

Range(seq) == {seq[i] : i \in 1..Len(seq)}

\* The readings of seq dated d, in the order of seq.
OnDate(seq, d) == SelectSeq(seq, LAMBDA r : date_of(r.timestamp) = d)

NonDecreasing(seq) ==
    \A i, j \in 1..Len(seq) : i < j => seq[i].timestamp <= seq[j].timestamp

\* How many times the object r occurs in seq.
Occurrences(seq, r) == Cardinality({i \in 1..Len(seq) : seq[i] = r})

RECURSIVE SumOfValues(_)
SumOfValues(seq) ==
    IF seq = <<>> THEN 0 ELSE Head(seq).value + SumOfValues(Tail(seq))

InvalidMeterId == "InvalidMeterId"
DuplicateAccount == "DuplicateAccount"
InvalidReading == "InvalidReading"

----------------------------------------------------------------------------
\* C1: after any sequence of add_reading calls, each account's readings are
\* non-decreasing by timestamp, and readings of equal timestamp stand in the
\* order in which they were added.
C1_SortedStable ==
    \A id \in DOMAIN accounts :
        LET r == accounts[id].readings
        IN  \A i, j \in 1..Len(r) :
                i < j => /\ r[i].timestamp <= r[j].timestamp
                         /\ r[i].timestamp = r[j].timestamp => r[i].oid < r[j].oid

\* Three readings in one account, one submitted with a timestamp earlier
\* than a reading already stored, and two of equal timestamp.
C1_Witness ==
    \E id \in DOMAIN accounts :
        LET r == accounts[id].readings
        IN  /\ Len(r) = 3
            /\ \E i, j \in 1..3 : i < j /\ r[i].oid > r[j].oid
            /\ \E i, j \in 1..3 : i < j /\ r[i].timestamp = r[j].timestamp

\* C2: every reading of readings is in exactly one bucket of
\* readings_by_date, the bucket of its timestamp's date, and every reading
\* of a bucket is in readings.
C2_DateIndexConsistent ==
    \A id \in DOMAIN accounts :
        LET a == accounts[id]
        IN  /\ \A r \in Range(a.readings) :
                /\ date_of(r.timestamp) \in DOMAIN a.readings_by_date
                /\ \A d \in DOMAIN a.readings_by_date :
                      Occurrences(a.readings_by_date[d], r)
                          = IF d = date_of(r.timestamp) THEN 1 ELSE 0
            /\ \A d \in DOMAIN a.readings_by_date :
                  Range(a.readings_by_date[d]) \subseteq Range(a.readings)

\* An account with readings on two dates, and a bucket that a query left
\* empty.
C2_Witness ==
    \E id \in DOMAIN accounts :
        LET a == accounts[id]
        IN  /\ \E r, q \in Range(a.readings) :
                  date_of(r.timestamp) # date_of(q.timestamp)
            /\ \E d \in DOMAIN a.readings_by_date : a.readings_by_date[d] = <<>>

\* C3: a create_account for a meter_id that is already registered fails
\* with DuplicateAccount and leaves accounts and meters as they were.
C3_DuplicateRejected ==
    [][(last'.op = "create_account" /\ last'.meter_id \in DOMAIN meters)
          => /\ last'.status = DuplicateAccount
             /\ accounts' = accounts
             /\ meters' = meters]_vars

\* C4: no two accounts have the same meter_id.
C4_UniqueMeterIds ==
    \A a, b \in DOMAIN accounts :
        a # b => accounts[a].meter_id # accounts[b].meter_id

\* C5: an add_reading for a meter_id that is not registered fails with
\* UnknownMeter and leaves accounts, meters and owners as they were.
C5_UnknownMeterRejected ==
    [][(last'.op = "add_reading" /\ last'.meter_id \notin DOMAIN meters)
          => /\ last'.status = UnknownMeter
             /\ accounts' = accounts
             /\ meters' = meters
             /\ owners' = owners
             /\ created' = created]_vars

\* An add_reading for an unregistered meter has failed while another
\* account with readings exists; no account has that meter.
C5_Witness ==
    /\ last.op = "add_reading"
    /\ last.status = UnknownMeter
    /\ last.meter_id \notin DOMAIN meters
    /\ \A id \in DOMAIN accounts : accounts[id].meter_id # last.meter_id
    /\ \E id \in DOMAIN accounts : Len(accounts[id].readings) > 0

\* C6: an add_reading on a registered meter with a value outside
\* [0, 99999.9] fails with InvalidReading and stores no reading.
C6_InvalidReadingRejected ==
    [][(/\ last'.op = "add_reading"
        /\ last'.meter_id \in DOMAIN meters
        /\ ~validate_reading(last'.value))
          => /\ last'.status = InvalidReading
             /\ accounts' = accounts]_vars

\* C7: a create_account with a meter_id not of the form DDD-DDD-DDD fails
\* with InvalidMeterId and creates no account.
C7_InvalidMeterIdRejected ==
    [][(last'.op = "create_account" /\ ~validate_meter_id(last'.meter_id))
          => /\ last'.status = InvalidMeterId
             /\ accounts' = accounts
             /\ meters' = meters]_vars

\* C8: get_readings_by_date_range(d, d) returns exactly the readings of
\* readings dated d, in their order in readings.
C8_SingleDateRange ==
    (last.op = "get_readings_by_date_range" /\ last.start_date = last.end_date)
        => last.result = OnDate(accounts[last.account_id].readings,
                                last.start_date)

\* A single-date query that returned two readings submitted out of order
\* from an account that holds readings of another date too.
C8_Witness ==
    /\ last.op = "get_readings_by_date_range"
    /\ last.start_date = last.end_date
    /\ Len(last.result) = 2
    /\ last.result[1].oid > last.result[2].oid
    /\ Len(accounts[last.account_id].readings) = 3

\* C9: for start_date <= end_date, get_readings_by_date_range returns the
\* buckets of the dates start_date..end_date one after the other in
\* increasing date order (a date without readings adds nothing), and the
\* result is non-decreasing by timestamp.
C9_RangeConcatenation ==
    (last.op = "get_readings_by_date_range" /\ last.start_date <= last.end_date)
        => LET a == accounts[last.account_id]
           IN  /\ \A d \in Dates :
                     OnDate(last.result, d)
                         = IF last.start_date <= d /\ d <= last.end_date
                           THEN dd_get(a.readings_by_date, d)
                           ELSE <<>>
               /\ Range(last.result) \subseteq Range(a.readings)
               /\ NonDecreasing(last.result)

\* A query over three dates, the middle one without readings, that returned
\* the readings of the first and of the last date.
C9_Witness ==
    /\ last.op = "get_readings_by_date_range"
    /\ last.end_date = last.start_date + 2
    /\ OnDate(last.result, last.start_date) # <<>>
    /\ OnDate(accounts[last.account_id].readings, last.start_date + 1) = <<>>
    /\ OnDate(last.result, last.end_date) # <<>>

\* C10: get_daily_consumption(d) is the sum of the values of the readings
\* dated d, and 0 when there is none.
C10_DailySum ==
    last.op = "get_daily_consumption"
        => LET on_date == OnDate(accounts[last.account_id].readings,
                                 last.target_date)
           IN  /\ last.result = SumOfValues(on_date)
               /\ on_date = <<>> => last.result = 0

\* The consumption of a date with two readings of different values, asked
\* of an account that holds a reading of another date too.
C10_Witness ==
    /\ last.op = "get_daily_consumption"
    /\ LET a == accounts[last.account_id]
           on_date == OnDate(a.readings, last.target_date)
       IN  /\ Len(on_date) = 2
           /\ on_date[1].value # on_date[2].value
           /\ Len(a.readings) = 3

----------------------------------------------------------------------------
\* Helpers of the properties of the archival.

\* The archived data holds, in order, the timestamp and the value of each of
\* the readings.
SameReadings(data, readings) ==
    /\ Len(data) = Len(readings)
    /\ \A i \in 1..Len(readings) :
           /\ data[i].timestamp = readings[i].timestamp
           /\ data[i].value = readings[i].value

\* What the archival recorded in call wrote for the account of meter_id.
Archived(call, meter_id) ==
    IF meter_id \in DOMAIN call.written THEN call.written[meter_id] ELSE <<>>

\* C11: the archival of date d returns, for each account, exactly the
\* readings the account held for d immediately before the call, in their
\* order, and immediately after the call the account holds no reading for d.
C11_ArchiveReturnsRangeAndClears ==
    [][last'.op = "archive_daily_data" =>
          \A m \in DOMAIN storage_accounts :
              LET d == last'.yesterday
                  before == readings_get(storage_accounts[m], d)
              IN  /\ SameReadings(Archived(last', m), before)
                  /\ before # <<>> =>
                         /\ <<d, m>> \in DOMAIN archive'
                         /\ SameReadings(archive'[<<d, m>>], before)
                  /\ readings_get(storage_accounts'[m], d) = <<>>]_vars

\* An archival has just written two readings of one account.
C11_Witness ==
    /\ last.op = "archive_daily_data"
    /\ \E m \in DOMAIN last.written :
           /\ Len(last.written[m]) >= 2
           /\ readings_get(storage_accounts[m], last.yesterday) = <<>>

\* The days the maintenance job can take for yesterday.
Yesterdays == {yesterday_of(now) : now \in Timestamps}

\* The archival of date d, called in this state, returns nothing and leaves
\* the accounts and the archive as they are.
ArchiveIsNoOp(d) ==
    /\ archive_written(d) = <<>>
    /\ archive_files(d) = archive
    /\ archive_accounts(d) = storage_accounts

\* C13: an archival of date d called right after an archival of d, with no
\* call in between, returns nothing, raises no error and leaves the accounts
\* and the archive as they were after the first; so does the archival of a
\* date on which no account holds a reading.
C13_ArchiveIdempotent ==
    /\ last.op = "archive_daily_data" =>
           last.status = "ok" /\ ArchiveIsNoOp(last.yesterday)
    /\ \A d \in Yesterdays :
           (\A m \in DOMAIN storage_accounts :
                readings_get(storage_accounts[m], d) = <<>>)
           => ArchiveIsNoOp(d)

\* A second archival of a date has returned nothing: the file the first one
\* wrote is there, the account holds nothing for the date.
C13_Witness ==
    /\ last.op = "archive_daily_data"
    /\ last.written = <<>>
    /\ \E m \in DOMAIN storage_accounts :
           /\ <<last.yesterday, m>> \in DOMAIN archive
           /\ readings_get(storage_accounts[m], last.yesterday) = <<>>

----------------------------------------------------------------------------
\* The store under concurrent calls.

\* The accounts registered under meter_id.
AccountsOfMeter(meter_id) ==
    {id \in DOMAIN accounts : accounts[id].meter_id = meter_id}

\* C14: of two create_account calls for one meter_id that run concurrently,
\* exactly one succeeds and the other fails with DuplicateAccount, and the
\* store holds one account of that meter_id: a call that raced another for
\* its meter_id and has stored its account has stored the only one.
C14_ConcurrentDuplicateRejected ==
    \A t \in Threads :
        (/\ pc[t] \in {"create_account:meters", "create_account:owners"}
         /\ frame[t].raced)
        => AccountsOfMeter(frame[t].meter_id) = {frame[t].account_id}

\* C15: in every state of the store, which a reader may observe at any time
\* since the read methods take no lock, a reading of an account is in
\* both the main sequence and the bucket of its date or in neither.
C15_NoTornState ==
    \A id \in DOMAIN accounts :
        LET account == accounts[id]
        IN  /\ \A r \in Range(account.readings) :
                   r \in Range(dd_get(account.readings_by_date,
                                      date_of(r.timestamp)))
            /\ \A d \in DOMAIN account.readings_by_date :
                   Range(account.readings_by_date[d])
                       \subseteq Range(account.readings)

\* Thread t is inside ElectricityAccount.add_reading on the account id.
MutatingAccount(t, id) ==
    /\ pc[t] \in {"account.add_reading:by_date",
                  "account.add_reading:last_reading_date"}
    /\ frame[t].account_id = id

\* Thread t is inside a mutation of the readings of the Storage account of
\* meter m: between the first and the last statement of Storage.add_reading
\* or of the archival of the account that touch them.
MutatingStorage(t, m) ==
    /\ pc[t] \in {"storage.add_reading:append", "archive_daily_data:del"}
    /\ frame[t].meter_id = m

\* A thread inside a mutation of an account holds the account's lock, and no
\* two threads are inside mutations of one account.
MutationsExclusive ==
    /\ \A t \in Threads, id \in DOMAIN accounts :
           MutatingAccount(t, id) => account_lock_holder(id) = t
    /\ \A t, u \in Threads, id \in DOMAIN accounts :
           MutatingAccount(t, id) /\ MutatingAccount(u, id) => t = u
    /\ \A t, u \in Threads, m \in DOMAIN storage_accounts :
           MutatingStorage(t, m) /\ MutatingStorage(u, m) => t = u

\* As in every serial order of the calls, the archival removes from an
\* account exactly the readings it has written to the account's file.
ArchiveRemovesWhatItWrote ==
    \A t \in Threads :
        (pc[t] = "archive_daily_data:del" /\ pc'[t] # "archive_daily_data:del")
        => LET m == frame[t].meter_id
               yesterday == frame[t].yesterday
           IN  SameReadings(archive[<<yesterday, m>>],
                            readings_get(storage_accounts[m], yesterday))

\* C16: every mutation of an account's readings (add_reading, the archival
\* removal) holds the account's exclusive lock for its duration: at most one
\* thread is inside a mutation of an account at any time, and the outcome is
\* that of some serial order of the calls.
C16_MutationsSerialized ==
    []MutationsExclusive /\ [][ArchiveRemovesWhatItWrote]_vars

\* C17: add_reading on one account leaves every other account of the store
\* untouched, its readings, its date index and its last_reading_date, also
\* when add_reading calls for different accounts run concurrently: a step of
\* a thread inside add_reading(meter_id, ...) changes no account but the one
\* registered for meter_id.
C17_OtherAccountsUntouched ==
    [][\A t \in Threads :
           (pc'[t] # pc[t] /\ frame[t].op = "add_reading")
           => \A id \in DOMAIN accounts :
                  id # dict_get(meters, frame[t].meter_id)
                  => /\ id \in DOMAIN accounts'
                     /\ accounts'[id] = accounts[id]]_vars

\* Both accounts hold a reading, and a thread is between the two insertions
\* of a further reading into its account while the other thread has called
\* add_reading for the other account.
C17_Witness ==
    /\ \A id \in DOMAIN accounts : Len(accounts[id].readings) >= 1
    /\ \E t, u \in Threads :
           /\ pc[t] = "account.add_reading:by_date"
           /\ pc[u] = "add_reading"
           /\ frame[u].meter_id \in DOMAIN meters
           /\ meters[frame[u].meter_id] # frame[t].account_id

----------------------------------------------------------------------------
\* Errors and lookups.

\* The call recorded did not return normally.
Failed(call) == call.status # "ok"

\* C18: a call that fails (with InvalidMeterId, DuplicateAccount,
\* UnknownMeter, InvalidReading or InvalidRange) leaves the whole state of
\* the store as it was.
C18_FailedCallChangesNothing ==
    [][Failed(last') =>
          UNCHANGED <<accounts, meters, owners, storage_accounts, archive>>]_vars

\* A summary asked of an account that does not exist has failed, in a store
\* whose account holds readings.
C18_Witness ==
    /\ last.op = "get_consumption_summary"
    /\ Failed(last)
    /\ \E id \in DOMAIN accounts : Len(accounts[id].readings) >= 2

InvalidRange == "InvalidRange"

\* C19: a range read whose start is after its end fails with InvalidRange.
C19_InvalidRangeRejected ==
    (/\ last.op \in {"get_readings_by_date_range", "get_consumption_summary"}
     /\ last.start_date > last.end_date)
    => last.status = InvalidRange

\* get_latest_reading has returned the reading of greatest timestamp, the
\* last added among those of that timestamp, and None for an account
\* without readings.
LatestIsGreatest ==
    last.op = "get_latest_reading" =>
        LET readings == accounts[last.account_id].readings
        IN  IF readings = <<>> THEN last.result = NoReading
            ELSE /\ last.result \in Range(readings)
                 /\ \A r \in Range(readings) :
                        \/ r.timestamp < last.result.timestamp
                        \/ /\ r.timestamp = last.result.timestamp
                           /\ r.oid <= last.result.oid

\* C20: the latest reading of a meter is the reading of greatest timestamp
\* of its account, the last added among ties; it is none for a registered
\* account without readings; the lookup of a meter that is not registered
\* fails with UnknownMeter.
C20_LatestReading ==
    /\ LatestIsGreatest
    /\ (last.op = "get_account_by_meter" /\ last.meter_id \notin DOMAIN meters)
       => last.status = UnknownMeter

----------------------------------------------------------------------------
\* The readings an account holds, in its main sequence and its date index.
HeldReadings(account) ==
    Range(account.readings) \cup
        UNION {Range(account.readings_by_date[d]) :
                   d \in DOMAIN account.readings_by_date}

AllReceived ==
    \A id \in DOMAIN accounts :
        \A r \in HeldReadings(accounts[id]) : r.status = RECEIVED

\* A step keeps every reading it found, field for field, and a reading it
\* adds is the one add_reading built from its arguments.
ReadingsAsCreated ==
    \A id \in DOMAIN accounts :
        accounts'[id] # accounts[id] =>
            /\ HeldReadings(accounts[id]) \subseteq HeldReadings(accounts'[id])
            /\ \A r \in HeldReadings(accounts'[id]) \ HeldReadings(accounts[id]) :
                   /\ last'.op = "add_reading"
                   /\ last'.status = "ok"
                   /\ r = last'.reading
                   /\ r.status = RECEIVED
                   /\ r.meter_id = last'.meter_id
                   /\ r.value = last'.value
                   /\ r.meter_id = accounts[id].meter_id

\* C21: every reading is created with status received and never changes:
\* in every reachable state each reading an account holds has status
\* received, and every step leaves the readings it found with the meter_id,
\* timestamp and value they were created with.
C21_ReadingsImmutable == []AllReceived /\ [][ReadingsAsCreated]_vars

C21_Witness ==
    /\ last.op = "add_reading"
    /\ last.status = "ok"
    /\ \E id \in DOMAIN accounts :
           /\ Len(accounts[id].readings) >= 2
           /\ last.reading \in HeldReadings(accounts[id])
           /\ \E r \in HeldReadings(accounts[id]) : r.timestamp > last.reading.timestamp

ReadOperations ==
    {"get_latest_reading", "get_readings_by_date_range", "get_daily_consumption"}

\* C22: get_latest_reading, get_readings_by_date_range and
\* get_daily_consumption do not modify the account: its main sequence and
\* its date index, the set of keys of the index included, are the same after
\* the call as before it, also when the dates asked for have no readings.
C22_ReadsDoNotModify ==
    [][last'.op \in ReadOperations => accounts' = accounts]_vars

\* last_reading_date is the timestamp of the reading get_latest_reading
\* returns, and None exactly when the account holds no reading.
LastReadingDateIsLatest(account) ==
    IF Len(account.readings) = 0
    THEN account.last_reading_date = NoneTs
    ELSE /\ account.last_reading_date # NoneTs
         /\ account.last_reading_date = get_latest_reading(account).timestamp
         /\ \A r \in Range(account.readings) :
                r.timestamp <= account.last_reading_date

\* C23: after any sequence of add_reading calls the account's
\* last_reading_date is the timestamp of the reading get_latest_reading
\* returns, the greatest timestamp held, and None exactly when the account
\* has no readings.
C23_LastReadingDate ==
    \A id \in DOMAIN accounts : LastReadingDateIsLatest(accounts[id])

\* C24: the three indexes of the manager agree: every account is the value
\* of meters at its meter_id and a member of owners at its owner, every
\* value of meters and every member of an owners set is a key of accounts,
\* and get_account_by_meter finds every account through its meter_id.
C24_IndexesAgree ==
    /\ \A id \in DOMAIN accounts :
           /\ accounts[id].account_id = id
           /\ accounts[id].meter_id \in DOMAIN meters
           /\ meters[accounts[id].meter_id] = id
           /\ accounts[id].owner \in DOMAIN owners
           /\ id \in owners[accounts[id].owner]
           /\ get_account_by_meter(accounts[id].meter_id) = id
    /\ \A m \in DOMAIN meters :
           /\ meters[m] \in DOMAIN accounts
           /\ accounts[get_account_by_meter(m)].meter_id = m
    /\ \A o \in DOMAIN owners : owners[o] \subseteq DOMAIN accounts

\* The sum of the entries of a dict of numbers.
RECURSIVE SumOfEntries(_)
SumOfEntries(d) ==
    IF DOMAIN d = {} THEN 0
    ELSE LET k == CHOOSE x \in DOMAIN d : TRUE
         IN  d[k] + SumOfEntries([x \in DOMAIN d \ {k} |-> d[x]])

\* The summary a call returned agrees with the per-date query of the
\* account it was asked for.
SummaryConsistent(call) ==
    LET summary == call.result
        account == accounts[call.account_id]
        daily == summary.daily_consumption
    IN  /\ summary.total_consumption = SumOfEntries(daily)
        /\ \A d \in DOMAIN daily : daily[d] = get_daily_consumption(account, d)
        /\ \A d \in call.start_date..call.end_date :
               OnDate(account.readings, d) # <<>> => d \in DOMAIN daily

C27_JsonRoundTrip ==
    last.op = "from_json" =>
        /\ last.result.meters = meters
        /\ last.result.owners = owners
        /\ last.result.accounts = <<>>
        /\ \A meter_id \in DOMAIN meters :
               /\ get_account_by_meter(meter_id) # NoAccount
               /\ manager_get_account_by_meter(last.result, meter_id) = NoAccount

C27_Witness ==
    /\ last.op = "from_json"
    /\ DOMAIN last.json.accounts # {}
    /\ DOMAIN meters # {}
    /\ \E owner_id \in DOMAIN owners : owners[owner_id] # {}
    /\ \E id \in DOMAIN accounts : Len(accounts[id].readings) >= 1

\* The accounts holding at least one reading dated d.
HoldingReadings(d) ==
    {m \in DOMAIN storage_accounts :
        /\ d \in DOMAIN storage_accounts[m].readings
        /\ storage_accounts[m].readings[d] # <<>>}

\* C28: a run of run_daily_maintenance writes a denormalized daily row for
\* every account that held at least one reading dated yesterday when the run
\* started.
C28_DenormalizedRowPerAccount ==
    [][last'.op = "run_daily_maintenance" =>
          \A m \in HoldingReadings(last'.yesterday) :
              \E row \in last'.rows :
                  row.Meter_ID = m /\ row.Date = last'.yesterday]_vars

\* C29: after Storage.archive_daily_data completes successfully the
\* readings of the current date are written to the archive and cleared from
\* memory: no account still has an entry for the current date.
C29_ArchiveClearsCurrentDate ==
    (last.op = "Storage.archive_daily_data" /\ last.status = "ok") =>
        /\ \A m \in DOMAIN last.written :
               <<last.current_date, m>> \in DOMAIN archive
        /\ \A m \in DOMAIN storage_accounts :
               last.current_date \notin DOMAIN storage_accounts[m].readings

\* The simulators whose thread is running.
Alive == {s \in 1..Len(sims) : sims[s].thread = "alive"}

\* No meter has two simulator threads.
OneSimulatorPerMeter ==
    \A s1 \in Alive, s2 \in Alive :
        sims[s1].meter_id = sims[s2].meter_id => s1 = s2

\* A simulator told to stop sends at most the reading of the iteration it
\* is in.
NoReadingAfterStop ==
    \A s \in 1..Len(sims) : sims[s].sent_stopped <= 1

\* A stop_all that was called returns.
StopAllReturns ==
    \A t \in Threads :
        (pc[t] \in {"stop_all:for", "stop:join"}) ~> (pc[t] = "stopped")

\* After stop_all has returned every simulator thread ends.
ThreadsEnd ==
    (\E t \in Threads : pc[t] = "stopped") ~> (Alive = {})

\* C30: the MeterSimulatorManager keeps at most one simulator per meter_id
\* (add_meter for a managed meter starts no second thread); after stop_all
\* every simulator thread eventually leaves its loop and stop_all returns:
\* once running is False no reading is sent after the current iteration and
\* the thread terminates.
C30_SimulatorsStop ==
    /\ []OneSimulatorPerMeter
    /\ []NoReadingAfterStop
    /\ StopAllReturns
    /\ ThreadsEnd

====
